---------------------------- MODULE Spec2Model ----------------------------
(***************************************************************************)
(* A model of runh's low-level mechanisms:                                 *)
(*   src/src/kill.rs    kill_container                                     *)
(*   src/src/rootfs.rs  resolve_in_rootfs, mount_rootfs,                   *)
(*                      set_rootfs_read_only, pivot_root                   *)
(*   src/src/logging.rs RunhLogger::log, init                              *)
(*                                                                         *)
(* Every fatal error of the source is a panic; a panic ends the call, so   *)
(* the panicking step is the last step of the call.  Strings the code      *)
(* takes apart (signal specifications, destination paths) are sequences of *)
(* one-character strings; strings it only compares are TLA+ strings.       *)
(***************************************************************************)
EXTENDS Integers, Sequences, FiniteSets, TLC

VARIABLES
    \* ---- kill_container (kill.rs) ----
    store,            \* the persisted container states: id -> Option<ContainerState>
    procs,            \* the process ids alive in the kernel
    k_pc,             \* position of the kill_container call
    k_id,             \* argument id:  Option<&str>
    k_sig,            \* argument sig: Option<&str>
    k_all,            \* argument all: bool
    container_state,  \* local container_state (the snapshot read from the store)
    k_pid,            \* local pid
    k_signal,         \* local signal
    k_outcome,        \* "running", "Ok", or the panic the call ended with
    killCalls,        \* every invocation of nix::sys::signal::kill, in order
    exitedSinceRead,  \* history: the processes that exited after the state was read
    \* ---- mount_rootfs, set_rootfs_read_only, pivot_root (rootfs.rs) ----
    m_fn,             \* the function called
    m_pc,             \* position of the call
    m_spec,           \* argument spec: the runtime spec (its linux section)
    m_rootfs,         \* argument rootfs / rootfs_path
    mount_flags,      \* local mount_flags of mount_rootfs
    old_root,         \* local old_root of pivot_root: Option<File>
    new_root,         \* local new_root of pivot_root: Option<File>
    fds,              \* the file descriptors the process holds open
    syscalls,         \* every system call the call has made, in order
    m_outcome,        \* "running", "Ok", or the panic the call ended with
    \* ---- resolve_in_rootfs (rootfs.rs) ----
    fs,               \* the filesystem: canonical path -> directory, file or symlink
    r_pc,             \* position of the call
    r_dest,           \* argument destination_rel: &str
    r_rootfs,         \* argument rootfs: &PathBuf
    r_todo,           \* the components destination.iter() has still to yield
    destination_resolved,  \* local destination_resolved
    r_outcome,        \* "running", "Ok" (destination_resolved is returned), or the panic
    r_faults,         \* history: for every iteration, the I/O error that hit a prefix that exists
    \* ---- RunhLogger (logging.rs) ----
    lg_pc,            \* "uninit", "ready" (the logger is installed) or "panicked" (init failed)
    lg_outcome,       \* "", "Ok", or the panic init ended with
    log_file,         \* field log_file: Option<File>, inside its mutex
    log_file_internal,  \* field log_file_internal: Option<File>, inside its mutex
    log_format,       \* field log_format: "TEXT" or "JSON"
    max_level,        \* log::max_level(), as init set it
    file_lock,        \* the thread that holds the guard of log_file (local file_lock), 0 for none
    file_lock_backup, \* the thread that holds the guard of log_file_internal, 0 for none
    log_file_poisoned,           \* a thread panicked with the guard of log_file
    log_file_internal_poisoned,  \* a thread panicked with the guard of log_file_internal
    t_pc,             \* per thread: its position in log
    t_rec,            \* per thread: the record it logs
    t_panic,          \* per thread: the panic that ended it, or ""
    primary,          \* what was written to the log file (or pipe), write by write
    internal,         \* what was written to the internal log file, write by write
    stdout,           \* what was printed to stdout, record by record
    lg_calls,         \* the number of records passed to log so far
    lg_returned       \* the records whose call of log returned

killVars == <<store, procs, k_pc, k_id, k_sig, k_all, container_state, k_pid, k_signal, k_outcome, killCalls, exitedSinceRead>>

rootfsVars == <<m_fn, m_pc, m_spec, m_rootfs, mount_flags, old_root, new_root, fds, syscalls, m_outcome>>

resolveVars == <<fs, r_pc, r_dest, r_rootfs, r_todo, destination_resolved, r_outcome, r_faults>>

logVars == <<lg_pc, lg_outcome, log_file, log_file_internal, log_format, max_level, file_lock, file_lock_backup, log_file_poisoned, log_file_internal_poisoned, t_pc, t_rec, t_panic, primary, internal, stdout, lg_calls, lg_returned>>

vars == <<killVars, rootfsVars, resolveVars, logVars>>

\* What a step of one function leaves alone: the state of the others.
killOthers == <<rootfsVars, resolveVars, logVars>>

rootfsOthers == <<killVars, resolveVars, logVars>>

resolveOthers == <<killVars, rootfsVars, logVars>>

logOthers == <<killVars, rootfsVars, resolveVars>>

----------------------------------------------------------------------------
(* Option<T> and Result<T, E>                                              *)

None == [some |-> FALSE]

Some(x) == [some |-> TRUE, val |-> x]

Err == [ok |-> FALSE]

Ok(x) == [ok |-> TRUE, val |-> x]

----------------------------------------------------------------------------
(* Strings as sequences of characters                                      *)

StartsWith(s, prefix) == Len(s) >= Len(prefix) /\ SubSeq(s, 1, Len(prefix)) = prefix

DigitVal == [c \in {"0", "1", "2", "3", "4", "5", "6", "7", "8", "9"} |->
                CASE c = "0" -> 0 [] c = "1" -> 1 [] c = "2" -> 2 [] c = "3" -> 3
                  [] c = "4" -> 4 [] c = "5" -> 5 [] c = "6" -> 6 [] c = "7" -> 7
                  [] c = "8" -> 8 [] c = "9" -> 9]

I32Max == 2147483647

I32Min == -2147483647 - 1

RECURSIVE AccumulateI32(_, _, _)
\* The digit loop of i32's from_str_radix: checked_mul(10) then checked_add
\* (checked_sub for a negative number); an overflow is an error.
AccumulateI32(digits, acc, negative) ==
    IF digits = <<>> THEN Ok(acc)
    ELSE LET d == DigitVal[Head(digits)] IN
         IF negative
         THEN IF acc < (I32Min + d + 9) \div 10 THEN Err
              ELSE AccumulateI32(Tail(digits), acc * 10 - d, negative)
         ELSE IF acc > (I32Max - d) \div 10 THEN Err
              ELSE AccumulateI32(Tail(digits), acc * 10 + d, negative)

\* str::parse::<i32>(): an optional sign, then one or more decimal digits and
\* nothing else; the value must fit 32 bits.
ParseI32(s) ==
    LET signed == Len(s) > 0 /\ s[1] \in {"+", "-"}
        negative == Len(s) > 0 /\ s[1] = "-"
        digits == IF signed THEN Tail(s) ELSE s
    IN IF digits = <<>> \/ \E i \in 1..Len(digits) : digits[i] \notin DOMAIN DigitVal
       THEN Err
       ELSE AccumulateI32(digits, 0, negative)

----------------------------------------------------------------------------
(* nix::sys::signal::Signal on Linux: the signal's value is its number     *)

SIG == <<"S", "I", "G">>

SignalTable ==
    << SIG \o <<"H", "U", "P">>,                  \*  1
       SIG \o <<"I", "N", "T">>,                  \*  2
       SIG \o <<"Q", "U", "I", "T">>,             \*  3
       SIG \o <<"I", "L", "L">>,                  \*  4
       SIG \o <<"T", "R", "A", "P">>,             \*  5
       SIG \o <<"A", "B", "R", "T">>,             \*  6
       SIG \o <<"B", "U", "S">>,                  \*  7
       SIG \o <<"F", "P", "E">>,                  \*  8
       SIG \o <<"K", "I", "L", "L">>,             \*  9
       SIG \o <<"U", "S", "R", "1">>,             \* 10
       SIG \o <<"S", "E", "G", "V">>,             \* 11
       SIG \o <<"U", "S", "R", "2">>,             \* 12
       SIG \o <<"P", "I", "P", "E">>,             \* 13
       SIG \o <<"A", "L", "R", "M">>,             \* 14
       SIG \o <<"T", "E", "R", "M">>,             \* 15
       SIG \o <<"S", "T", "K", "F", "L", "T">>,   \* 16
       SIG \o <<"C", "H", "L", "D">>,             \* 17
       SIG \o <<"C", "O", "N", "T">>,             \* 18
       SIG \o <<"S", "T", "O", "P">>,             \* 19
       SIG \o <<"T", "S", "T", "P">>,             \* 20
       SIG \o <<"T", "T", "I", "N">>,             \* 21
       SIG \o <<"T", "T", "O", "U">>,             \* 22
       SIG \o <<"U", "R", "G">>,                  \* 23
       SIG \o <<"X", "C", "P", "U">>,             \* 24
       SIG \o <<"X", "F", "S", "Z">>,             \* 25
       SIG \o <<"V", "T", "A", "L", "R", "M">>,   \* 26
       SIG \o <<"P", "R", "O", "F">>,             \* 27
       SIG \o <<"W", "I", "N", "C", "H">>,        \* 28
       SIG \o <<"I", "O">>,                       \* 29
       SIG \o <<"P", "W", "R">>,                  \* 30
       SIG \o <<"S", "Y", "S">> >>                \* 31

Signals == 1..Len(SignalTable)

\* A variant of SignalTryFrom that also accepts 0 (0 <= signum).
SignalTryFrom_ZeroOk(sig_nr) == IF sig_nr \in Signals \cup {0} THEN Ok(sig_nr) ELSE Err

\* Signal::try_from(i32): a number strictly between 0 and NSIG.
SignalTryFrom(sig_nr) == IF sig_nr \in Signals THEN Ok(sig_nr) ELSE Err

\* Signal::from_str(&str): an exact, case-sensitive match of the full name.
SignalFromStr(signal_str) ==
    IF \E n \in Signals : SignalTable[n] = signal_str
    THEN Ok(CHOOSE n \in Signals : SignalTable[n] = signal_str)
    ELSE Err

----------------------------------------------------------------------------
(* The inputs of kill_container                                            *)

ContainerIds == {"abc", "xyz"}

Statuses == {"creating", "created", "running", "stopped"}

\* The process id of each container's init process, when it has one.
InitPid == [id \in ContainerIds |-> IF id = "abc" THEN 4242 ELSE 4243]

Pids == {InitPid[id] : id \in ContainerIds}

\* The ContainerState records the store may hold for a container:
\* {status, pid: Option<i32>}.  Container "abc" is in any state; the other
\* container, when it exists, is running.
ContainerStates(id) ==
    IF id = "abc"
    THEN [status : Statuses, pid : {None, Some(InitPid[id])}]
    ELSE {[status |-> "running", pid |-> Some(InitPid[id])]}

\* The state stores: every container is absent or has one of its records.
Stores == {st \in [ContainerIds -> {None} \cup UNION {{Some(cs) : cs \in ContainerStates(id)} : id \in ContainerIds}] :
              \A id \in ContainerIds : st[id].some => st[id].val \in ContainerStates(id)}

DigitChar == <<"0", "1", "2", "3", "4", "5", "6", "7", "8", "9">>

\* The decimal form of a signal number (1..99).
Decimal(n) == IF n < 10 THEN <<DigitChar[n + 1]>> ELSE <<DigitChar[(n \div 10) + 1], DigitChar[(n % 10) + 1]>>

\* The name of signal n without its SIG prefix.
ShortName(n) == SubSeq(SignalTable[n], Len(SIG) + 1, Len(SignalTable[n]))

\* The three forms of every platform signal.
GoodSigSpecs == UNION {{Decimal(n), ShortName(n), SignalTable[n]} : n \in Signals}

\* Specifications that denote no signal, and odd forms of ones that do.
OtherSigSpecs ==
    { <<"0">>, <<"-", "9">>, <<"-", "0">>, <<"3", "2">>, <<"6", "4">>,
      <<"9", "9", "9", "9", "9", "9", "9", "9", "9", "9", "9">>,
      <<"-", "2", "1", "4", "7", "4", "8", "3", "6", "4", "8">>,
      <<"+", "9">>, <<"0", "9">>, <<" ", "9">>, <<"9", " ">>, <<"+">>, <<>>,
      <<"n", "o", "t", "a", "s", "i", "g", "n", "a", "l">>,
      <<"k", "i", "l", "l">>, <<"s", "i", "g", "k", "i", "l", "l">>,
      <<"S", "I", "G", "k", "i", "l", "l">>, <<"S", "i", "g", "K", "I", "L", "L">>,
      SIG, SIG \o SIG \o <<"K", "I", "L", "L">>, <<"S", "I", "G", "9">> }

SigSpecs == GoodSigSpecs \cup OtherSigSpecs

----------------------------------------------------------------------------
(* kill_container                                                          *)

\* state::get_container_state(project_dir, id): the record of the container
\* in the state store of the project directory, or None.
GetContainerState(st, id) == st[id]

\* A variant of ResolveSignal that prepends SIG to every name.
ResolveSignal_AlwaysPrefix(sig) ==
    LET parsed == ParseI32(sig) IN
    IF parsed.ok
    THEN IF SignalTryFrom(parsed.val).ok
         THEN [panic |-> "", signal |-> SignalTryFrom(parsed.val).val]
         ELSE [panic |-> "Could not parse signal number", signal |-> 0]
    ELSE LET signal_str == SIG \o sig IN
         IF SignalFromStr(signal_str).ok
         THEN [panic |-> "", signal |-> SignalFromStr(signal_str).val]
         ELSE [panic |-> "Could not parse signal string", signal |-> 0]

\* Lines 18-29: the signal a specification denotes, or the panic.
ResolveSignal(sig) ==
    LET parsed == ParseI32(sig) IN
    IF parsed.ok
    THEN IF SignalTryFrom(parsed.val).ok
         THEN [panic |-> "", signal |-> SignalTryFrom(parsed.val).val]
         ELSE [panic |-> "Could not parse signal number", signal |-> 0]
    ELSE LET signal_str == IF ~StartsWith(sig, SIG) THEN SIG \o sig ELSE sig IN
         IF SignalFromStr(signal_str).ok
         THEN [panic |-> "", signal |-> SignalFromStr(signal_str).val]
         ELSE [panic |-> "Could not parse signal string", signal |-> 0]

\* A variant of KillChecks that rejects only the status "stopped".
KillChecks_OnlyStopped(cs, sig, all) ==
    IF cs.status = "stopped"
    THEN [panic |-> "Cannot send signals to non-running containers!", pid |-> 0, signal |-> 0]
    ELSE IF all
    THEN [panic |-> "not implemented: Sending signals to all container processes", pid |-> 0, signal |-> 0]
    ELSE IF ~cs.pid.some
    THEN [panic |-> "called Option::unwrap() on a None value (pid)", pid |-> 0, signal |-> 0]
    ELSE IF ~sig.some
    THEN [panic |-> "called Option::unwrap() on a None value (sig)", pid |-> cs.pid.val, signal |-> 0]
    ELSE [panic |-> ResolveSignal(sig.val).panic, pid |-> cs.pid.val, signal |-> ResolveSignal(sig.val).signal]

\* A variant of KillChecks that ignores all and signals the init process.
KillChecks_AllIgnored(cs, sig, all) ==
    IF cs.status # "created" /\ cs.status # "running"
    THEN [panic |-> "Cannot send signals to non-running containers!", pid |-> 0, signal |-> 0]
    ELSE IF ~cs.pid.some
    THEN [panic |-> "called Option::unwrap() on a None value (pid)", pid |-> 0, signal |-> 0]
    ELSE IF ~sig.some
    THEN [panic |-> "called Option::unwrap() on a None value (sig)", pid |-> cs.pid.val, signal |-> 0]
    ELSE [panic |-> ResolveSignal(sig.val).panic, pid |-> cs.pid.val, signal |-> ResolveSignal(sig.val).signal]

\* A variant of KillChecks that looks at all before the status.
KillChecks_AllFirst(cs, sig, all) ==
    IF all
    THEN [panic |-> "not implemented: Sending signals to all container processes", pid |-> 0, signal |-> 0]
    ELSE IF cs.status # "created" /\ cs.status # "running"
    THEN [panic |-> "Cannot send signals to non-running containers!", pid |-> 0, signal |-> 0]
    ELSE IF ~cs.pid.some
    THEN [panic |-> "called Option::unwrap() on a None value (pid)", pid |-> 0, signal |-> 0]
    ELSE IF ~sig.some
    THEN [panic |-> "called Option::unwrap() on a None value (sig)", pid |-> cs.pid.val, signal |-> 0]
    ELSE [panic |-> ResolveSignal(sig.val).panic, pid |-> cs.pid.val, signal |-> ResolveSignal(sig.val).signal]

\* Lines 9-29: the checks between the state read and the delivery, in the
\* order of the code; the first one that fails panics.
KillChecks(cs, sig, all) ==
    IF cs.status # "created" /\ cs.status # "running"
    THEN [panic |-> "Cannot send signals to non-running containers!", pid |-> 0, signal |-> 0]
    ELSE IF all
    THEN [panic |-> "not implemented: Sending signals to all container processes", pid |-> 0, signal |-> 0]
    ELSE IF ~cs.pid.some
    THEN [panic |-> "called Option::unwrap() on a None value (pid)", pid |-> 0, signal |-> 0]
    ELSE IF ~sig.some
    THEN [panic |-> "called Option::unwrap() on a None value (sig)", pid |-> cs.pid.val, signal |-> 0]
    ELSE [panic |-> ResolveSignal(sig.val).panic, pid |-> cs.pid.val, signal |-> ResolveSignal(sig.val).signal]

\* The call: kill_container(project_dir, id, sig, all).
KillCall(id, sig, all) ==
    /\ k_pc = "idle"
    /\ k_pc' = "get_state"
    /\ k_id' = id
    /\ k_sig' = sig
    /\ k_all' = all
    /\ k_outcome' = "running"
    /\ UNCHANGED <<store, procs, exitedSinceRead, container_state, k_pid, k_signal, killCalls>>
    /\ UNCHANGED killOthers

\* A variant of KillGetState that goes on with a default (empty) state when
\* the store has none (unwrap_or_default).
KillGetState_Default ==
    /\ k_pc = "get_state"
    /\ IF ~k_id.some
       THEN /\ k_pc' = "panicked"
            /\ k_outcome' = "called Option::unwrap() on a None value (id)"
            /\ UNCHANGED container_state
       ELSE /\ k_pc' = "checks"
            /\ container_state' = IF GetContainerState(store, k_id.val).some
                                  THEN GetContainerState(store, k_id.val)
                                  ELSE Some([status |-> "", pid |-> None])
            /\ UNCHANGED k_outcome
    /\ UNCHANGED <<store, procs, exitedSinceRead, k_id, k_sig, k_all, k_pid, k_signal, killCalls>>
    /\ UNCHANGED killOthers

\* Lines 7-8: read the container's state; panic when there is none.
KillGetState ==
    /\ k_pc = "get_state"
    /\ IF ~k_id.some
       THEN /\ k_pc' = "panicked"
            /\ k_outcome' = "called Option::unwrap() on a None value (id)"
            /\ UNCHANGED container_state
       ELSE IF ~GetContainerState(store, k_id.val).some
       THEN /\ k_pc' = "panicked"
            /\ k_outcome' = "Could not query state for container"
            /\ UNCHANGED container_state
       ELSE /\ k_pc' = "checks"
            /\ container_state' = GetContainerState(store, k_id.val)
            /\ UNCHANGED k_outcome
    /\ UNCHANGED <<store, procs, exitedSinceRead, k_id, k_sig, k_all, k_pid, k_signal, killCalls>>
    /\ UNCHANGED killOthers

\* Lines 9-29: status, all, pid and signal.
KillValidate ==
    /\ k_pc = "checks"
    /\ LET c == KillChecks(container_state.val, k_sig, k_all) IN
       IF c.panic # ""
       THEN /\ k_pc' = "panicked"
            /\ k_outcome' = c.panic
            /\ UNCHANGED <<k_pid, k_signal>>
       ELSE /\ k_pc' = "deliver"
            /\ k_pid' = Some(c.pid)
            /\ k_signal' = Some(c.signal)
            /\ UNCHANGED k_outcome
    /\ UNCHANGED <<store, procs, exitedSinceRead, k_id, k_sig, k_all, container_state, killCalls>>
    /\ UNCHANGED killOthers

\* kill(2): ESRCH when the process does not exist, EPERM when the caller may
\* not signal it.
KillErrnos(pid) == IF pid \in procs THEN {"OK", "EPERM"} ELSE {"ESRCH"}

\* A variant of KillDeliver that signals the process group of the pid
\* (Pid::from_raw(-pid)).
KillDeliver_ProcessGroup ==
    /\ k_pc = "deliver"
    /\ \E res \in KillErrnos(k_pid.val) :
        /\ killCalls' = Append(killCalls, [pid |-> 0 - k_pid.val, signal |-> k_signal.val, result |-> res])
        /\ IF res = "OK"
           THEN k_pc' = "returned" /\ k_outcome' = "Ok"
           ELSE k_pc' = "panicked" /\ k_outcome' = "Could not send signal"
    /\ UNCHANGED store
    /\ UNCHANGED <<procs, exitedSinceRead, k_id, k_sig, k_all, container_state, k_pid, k_signal>>
    /\ UNCHANGED killOthers

\* A variant of KillDeliver that takes a vanished process for a delivered
\* signal.
KillDeliver_IgnoreEsrch ==
    /\ k_pc = "deliver"
    /\ \E res \in KillErrnos(k_pid.val) :
        /\ killCalls' = Append(killCalls, [pid |-> k_pid.val, signal |-> k_signal.val, result |-> res])
        /\ IF res \in {"OK", "ESRCH"}
           THEN k_pc' = "returned" /\ k_outcome' = "Ok"
           ELSE k_pc' = "panicked" /\ k_outcome' = "Could not send signal"
    /\ UNCHANGED store
    /\ UNCHANGED <<procs, exitedSinceRead, k_id, k_sig, k_all, container_state, k_pid, k_signal>>
    /\ UNCHANGED killOthers

\* A variant of KillDeliver that records the container as stopped once the
\* signal is delivered.
KillDeliver_MarkStopped ==
    /\ k_pc = "deliver"
    /\ \E res \in KillErrnos(k_pid.val) :
        /\ killCalls' = Append(killCalls, [pid |-> k_pid.val, signal |-> k_signal.val, result |-> res])
        /\ IF res = "OK"
           THEN k_pc' = "returned" /\ k_outcome' = "Ok"
           ELSE k_pc' = "panicked" /\ k_outcome' = "Could not send signal"
    /\ store' = [store EXCEPT ![k_id.val] = Some([status |-> "stopped", pid |-> None])]
    /\ UNCHANGED <<procs, exitedSinceRead, k_id, k_sig, k_all, container_state, k_pid, k_signal>>
    /\ UNCHANGED killOthers

\* Lines 31-38: deliver the signal; panic when the delivery fails.
KillDeliver ==
    /\ k_pc = "deliver"
    /\ \E res \in KillErrnos(k_pid.val) :
        /\ killCalls' = Append(killCalls, [pid |-> k_pid.val, signal |-> k_signal.val, result |-> res])
        /\ IF res = "OK"
           THEN k_pc' = "returned" /\ k_outcome' = "Ok"
           ELSE k_pc' = "panicked" /\ k_outcome' = "Could not send signal"
    /\ UNCHANGED <<store, procs, exitedSinceRead, k_id, k_sig, k_all, container_state, k_pid, k_signal>>
    /\ UNCHANGED killOthers

\* The container's process, or any other, exits at any moment.
ProcessExit(p) ==
    /\ p \in procs
    /\ procs' = procs \ {p}
    /\ exitedSinceRead' = IF k_pc \in {"checks", "deliver"} THEN exitedSinceRead \cup {p} ELSE exitedSinceRead
    /\ UNCHANGED <<store, k_pc, k_id, k_sig, k_all, container_state, k_pid, k_signal, k_outcome, killCalls>>
    /\ UNCHANGED killOthers

\* No call of kill_container is in progress.
KillIdle ==
    /\ store = [id \in ContainerIds |-> None]
    /\ procs = {}
    /\ k_pc = "idle"
    /\ k_id = None
    /\ k_sig = None
    /\ k_all = FALSE
    /\ container_state = None
    /\ k_pid = None
    /\ k_signal = None
    /\ k_outcome = "idle"
    /\ killCalls = <<>>
    /\ exitedSinceRead = {}

KillInit ==
    /\ store \in Stores
    /\ procs \in SUBSET Pids
    /\ k_pc = "idle"
    /\ k_id = None
    /\ k_sig = None
    /\ k_all = FALSE
    /\ container_state = None
    /\ k_pid = None
    /\ k_signal = None
    /\ k_outcome = "idle"
    /\ killCalls = <<>>
    /\ exitedSinceRead = {}

KillNext ==
    \/ k_pc = "idle" /\ \E id \in {None} \cup {Some(i) : i \in ContainerIds},
                             sig \in {None} \cup {Some(s) : s \in SigSpecs},
                             all \in BOOLEAN : KillCall(id, sig, all)
    \/ KillGetState
    \/ KillValidate
    \/ KillDeliver
    \/ \E p \in Pids : ProcessExit(p)

----------------------------------------------------------------------------
(* mount_rootfs, set_rootfs_read_only and pivot_root                       *)

\* The values of linux.rootfsPropagation the calls are tried with.
PropagationStrings == {"shared", "slave", "private", "unbindable", "rshared", "Slave", ""}

\* The runtime spec as mount_rootfs reads it: spec.linux, an Option, and in
\* it rootfs_propagation, an Option<String>.
RuntimeSpecs == {[linux |-> None]} \cup {[linux |-> Some([rootfs_propagation |-> rp])] : rp \in {None} \cup {Some(x) : x \in PropagationStrings}}

RootfsPaths == {"/bundle/rootfs", "/run/runh/c1/rootfs"}

\* The descriptors the process holds when a call starts: stdin, stdout, stderr.
StdFds == {0, 1, 2}

\* open(2) returns the lowest descriptor that is not open.
LowestFreeFd(open) == CHOOSE fd \in 0..(Cardinality(open) + 1) : fd \notin open /\ \A g \in 0..(fd - 1) : g \in open

\* What a mount-namespace system call answers: success or an errno.
SysResults == {"OK", "EPERM", "EINVAL"}

\* What open(2) answers.
OpenResults == {"OK", "ENOENT", "EACCES"}

\* One entry of the system-call trace.
Sys(call, args, res) == [call |-> call, args |-> args, res |-> res]

\* A variant of DropHandles that closes nothing (the handles are leaked,
\* as into_raw_fd or mem::forget would).
DropHandles_Leak(open, handles) == open

\* Leaving the scope of File handles, by a return or by the unwinding of a
\* panic, drops them: each one that was opened is closed.
DropHandles(open, handles) == open \ {h.val : h \in {x \in handles : x.some}}

RootfsIdle ==
    /\ m_fn = ""
    /\ m_pc = "idle"
    /\ m_spec = [linux |-> None]
    /\ m_rootfs = ""
    /\ mount_flags = {}
    /\ old_root = None
    /\ new_root = None
    /\ fds = StdFds
    /\ syscalls = <<>>
    /\ m_outcome = "idle"

\* The call: mount_rootfs(spec, rootfs_path).
MountRootfsCall(spec, rootfs_path) ==
    /\ m_pc = "idle"
    /\ m_fn' = "mount_rootfs"
    /\ m_pc' = "mount_select"
    /\ m_spec' = spec
    /\ m_rootfs' = rootfs_path
    /\ m_outcome' = "running"
    /\ UNCHANGED <<mount_flags, old_root, new_root, fds, syscalls>>
    /\ UNCHANGED rootfsOthers

\* A variant of PropagationFlag that takes an unknown value for the default
\* (_ => MS_SLAVE).
PropagationFlag_UnknownIsSlave(rp) ==
    IF rp = Some("shared") THEN Ok("MS_SHARED")
    ELSE IF rp = Some("slave") THEN Ok("MS_SLAVE")
    ELSE IF rp = Some("private") THEN Ok("MS_PRIVATE")
    ELSE IF rp = Some("unbindable") THEN Ok("MS_UNBINDABLE")
    ELSE Ok("MS_SLAVE")

\* Lines 38-53: the propagation flag of a rootfsPropagation value.
PropagationFlag(rp) ==
    IF rp = Some("shared") THEN Ok("MS_SHARED")
    ELSE IF rp = Some("slave") THEN Ok("MS_SLAVE")
    ELSE IF rp = Some("private") THEN Ok("MS_PRIVATE")
    ELSE IF rp = Some("unbindable") THEN Ok("MS_UNBINDABLE")
    ELSE IF rp.some THEN Err
    ELSE Ok("MS_SLAVE")

\* Lines 27-54: MS_REC and the propagation flag; panics on a missing linux
\* section (unwrap) and on an unknown value.
MountSelectFlags ==
    /\ m_pc = "mount_select"
    /\ IF ~m_spec.linux.some
       THEN /\ m_pc' = "panicked"
            /\ m_outcome' = "called Option::unwrap() on a None value (linux)"
            /\ UNCHANGED mount_flags
       ELSE IF ~PropagationFlag(m_spec.linux.val.rootfs_propagation).ok
       THEN /\ m_pc' = "panicked"
            /\ m_outcome' = "Value of rootfsPropagation did not match any known option!"
            /\ UNCHANGED mount_flags
       ELSE /\ m_pc' = "mount_remount"
            /\ mount_flags' = {"MS_REC", PropagationFlag(m_spec.linux.val.rootfs_propagation).val}
            /\ UNCHANGED m_outcome
    /\ UNCHANGED <<m_fn, m_spec, m_rootfs, old_root, new_root, fds, syscalls>>
    /\ UNCHANGED rootfsOthers

\* The outcome of a system call made with expect: on success the call goes
\* on (or returns, after the last one); on an error it panics.  Either way
\* of leaving the function drops its File handles.
Expect(entry, to, message) ==
    /\ syscalls' = Append(syscalls, entry)
    /\ IF entry.res = "OK"
       THEN /\ m_pc' = to
            /\ m_outcome' = IF to = "returned" THEN "Ok" ELSE m_outcome
            /\ fds' = IF to = "returned" THEN DropHandles(fds, {old_root, new_root}) ELSE fds
       ELSE /\ m_pc' = "panicked"
            /\ m_outcome' = message
            /\ fds' = DropHandles(fds, {old_root, new_root})
    /\ UNCHANGED <<m_fn, m_spec, m_rootfs, mount_flags, old_root, new_root>>
    /\ UNCHANGED rootfsOthers

\* A variant of MountRemountRoot that goes on when the remount fails (the
\* result is dropped instead of expected).
MountRemountRoot_IgnoreError ==
    /\ m_pc = "mount_remount"
    /\ \E res \in SysResults :
        /\ syscalls' = Append(syscalls, Sys("mount", <<None, "/", None, mount_flags, None>>, res))
        /\ m_pc' = "mount_bind"
    /\ UNCHANGED <<m_fn, m_spec, m_rootfs, mount_flags, old_root, new_root, fds, m_outcome>>
    /\ UNCHANGED rootfsOthers

\* Lines 56-62: remount "/" with the selected flags.
MountRemountRoot ==
    /\ m_pc = "mount_remount"
    /\ \E res \in SysResults :
        Expect(Sys("mount", <<None, "/", None, mount_flags, None>>, res), "mount_bind",
               "Could not mount rootfs with given MsFlags")

\* Lines 65-78: bind-mount rootfs_path onto itself, then return.
MountBindRootfs ==
    /\ m_pc = "mount_bind"
    /\ \E res \in SysResults :
        Expect(Sys("mount", <<Some(m_rootfs), m_rootfs, Some("bind"), {"MS_BIND", "MS_REC"}, None>>, res), "returned",
               "Could not bind-mount rootfs")

\* The call: set_rootfs_read_only().
SetRootfsReadOnlyCall ==
    /\ m_pc = "idle"
    /\ m_fn' = "set_rootfs_read_only"
    /\ m_pc' = "readonly_remount"
    /\ m_outcome' = "running"
    /\ UNCHANGED <<m_spec, m_rootfs, mount_flags, old_root, new_root, fds, syscalls>>
    /\ UNCHANGED rootfsOthers

\* Lines 82-86: remount "/" read-only, then return.
SetRootfsReadOnly ==
    /\ m_pc = "readonly_remount"
    /\ \E res \in SysResults :
        Expect(Sys("mount", <<None, "/", None, {"MS_BIND", "MS_REMOUNT", "MS_RDONLY"}, None>>, res), "returned",
               "Could not change / mount type!")

\* The call: pivot_root(rootfs).
PivotRootCall(rootfs) ==
    /\ m_pc = "idle"
    /\ m_fn' = "pivot_root"
    /\ m_pc' = "open_old_root"
    /\ m_rootfs' = rootfs
    /\ m_outcome' = "running"
    /\ UNCHANGED <<m_spec, mount_flags, old_root, new_root, fds, syscalls>>
    /\ UNCHANGED rootfsOthers

\* Lines 91-97: open "/" as a directory.
PivotOpenOldRoot ==
    /\ m_pc = "open_old_root"
    /\ \E res \in OpenResults :
        /\ syscalls' = Append(syscalls, Sys("open", <<"/", {"O_RDONLY", "O_DIRECTORY"}>>, res))
        /\ IF res = "OK"
           THEN /\ m_pc' = "open_new_root"
                /\ old_root' = Some(LowestFreeFd(fds))
                /\ fds' = fds \cup {LowestFreeFd(fds)}
                /\ UNCHANGED m_outcome
           ELSE /\ m_pc' = "panicked"
                /\ m_outcome' = "Could not open old root!"
                /\ fds' = DropHandles(fds, {old_root, new_root})
                /\ UNCHANGED old_root
    /\ UNCHANGED <<m_fn, m_spec, m_rootfs, mount_flags, new_root>>
    /\ UNCHANGED rootfsOthers

\* Lines 99-105: open rootfs as a directory.
PivotOpenNewRoot ==
    /\ m_pc = "open_new_root"
    /\ \E res \in OpenResults :
        /\ syscalls' = Append(syscalls, Sys("open", <<m_rootfs, {"O_RDONLY", "O_DIRECTORY"}>>, res))
        /\ IF res = "OK"
           THEN /\ m_pc' = "fchdir_new_root"
                /\ new_root' = Some(LowestFreeFd(fds))
                /\ fds' = fds \cup {LowestFreeFd(fds)}
                /\ UNCHANGED m_outcome
           ELSE /\ m_pc' = "panicked"
                /\ m_outcome' = "Could not open new root!"
                /\ fds' = DropHandles(fds, {old_root, new_root})
                /\ UNCHANGED new_root
    /\ UNCHANGED <<m_fn, m_spec, m_rootfs, mount_flags, old_root>>
    /\ UNCHANGED rootfsOthers

\* Line 107: fchdir to the new root's handle.
PivotFchdirNewRoot ==
    /\ m_pc = "fchdir_new_root"
    /\ \E res \in SysResults :
        Expect(Sys("fchdir", <<new_root.val>>, res), "pivot",
               "Could not fchdir into new root!")

\* Line 109: pivot_root(".", ".").
PivotPivotRoot ==
    /\ m_pc = "pivot"
    /\ \E res \in SysResults :
        Expect(Sys("pivot_root", <<".", ".">>, res), "fchdir_old_root",
               "Could not pivot root!")

\* Line 111: fchdir to the old root's handle.
PivotFchdirOldRoot ==
    /\ m_pc = "fchdir_old_root"
    /\ \E res \in SysResults :
        Expect(Sys("fchdir", <<old_root.val>>, res), "remount_old_root",
               "Could not fchdir to old root!")

\* Lines 113-117: make the old root a recursive slave mount.
PivotRemountOldRoot ==
    /\ m_pc = "remount_old_root"
    /\ \E res \in SysResults :
        Expect(Sys("mount", <<None, ".", None, {"MS_SLAVE", "MS_REC"}, None>>, res), "umount_old_root",
               "Could not change old_root propagation type!")

\* A variant of PivotUmountOldRoot that goes on when the unmount fails.
PivotUmountOldRoot_IgnoreError ==
    /\ m_pc = "umount_old_root"
    /\ \E res \in SysResults :
        /\ syscalls' = Append(syscalls, Sys("umount2", <<".", {"MNT_DETACH"}>>, res))
        /\ m_pc' = "chdir_root"
    /\ UNCHANGED <<m_fn, m_spec, m_rootfs, mount_flags, old_root, new_root, fds, m_outcome>>
    /\ UNCHANGED rootfsOthers

\* Line 119: lazily unmount the old root.
PivotUmountOldRoot ==
    /\ m_pc = "umount_old_root"
    /\ \E res \in SysResults :
        Expect(Sys("umount2", <<".", {"MNT_DETACH"}>>, res), "chdir_root",
               "Could not unmount cwd!")

\* Lines 121-122: chdir("/"), then return; the handles go out of scope.
PivotChdirRoot ==
    /\ m_pc = "chdir_root"
    /\ \E res \in SysResults :
        Expect(Sys("chdir", <<"/">>, res), "returned",
               "Could not chdir into new_root at /!")

RootfsNext ==
    \/ \E spec \in RuntimeSpecs, rootfs_path \in RootfsPaths : MountRootfsCall(spec, rootfs_path)
    \/ MountSelectFlags
    \/ MountRemountRoot
    \/ MountBindRootfs
    \/ SetRootfsReadOnlyCall
    \/ SetRootfsReadOnly
    \/ \E rootfs \in RootfsPaths : PivotRootCall(rootfs)
    \/ PivotOpenOldRoot
    \/ PivotOpenNewRoot
    \/ PivotFchdirNewRoot
    \/ PivotPivotRoot
    \/ PivotFchdirOldRoot
    \/ PivotRemountOldRoot
    \/ PivotUmountOldRoot
    \/ PivotChdirRoot

----------------------------------------------------------------------------
----------------------------------------------------------------------------
(* resolve_in_rootfs                                                       *)
(*                                                                         *)
(* A path string is a sequence of tokens: the separator "/" and names      *)
(* (".", ".." and file names).  A path taken apart (Path::iter, and the    *)
(* PathBuf that push builds) is a sequence of components: the root         *)
(* directory "/" first, then names.  A canonical path is the sequence of   *)
(* the names that lead from the root directory to a node.                  *)

MaxLeadingSlashes == 2

MaxDestComponents == 2

MaxSymlinks == 3

\* The sequences over S of length 0..n.
SeqsUpTo(S, n) == UNION {[1..k -> S] : k \in 0..n}

RECURSIVE JoinNames(_)
\* The names of a sequence, separated by "/".
JoinNames(names) ==
    IF names = <<>> THEN <<>>
    ELSE IF Len(names) = 1 THEN names
    ELSE <<Head(names), "/">> \o JoinNames(Tail(names))

Slashes(k) == [i \in 1..k |-> "/"]

\* The names a destination is made of: "l" is the symlink of the rootfs.
DestNames == {"a", "l", "x", "..", "."}

\* The destination strings: leading slashes, then names separated by "/".
DestStrings == {Slashes(k) \o JoinNames(names) : k \in 0..MaxLeadingSlashes, names \in SeqsUpTo(DestNames, MaxDestComponents)}

\* The rootfs directories: absolute paths of real directories.
RootfsDirs == {<<"/", "r">>, <<"/", "r", "/", "a">>}

\* What the symlink /r/l may point to: a place outside the rootfs (absolute
\* and relative), a place inside it, itself, and nothing.
LinkTargets ==
    { <<"/", "etc">>, <<"..", "/", "etc">>, <<"..">>, <<"/", "r", "/", "a">>, <<"a">>,
      <<"/", "r", "/", "l">>, <<"gone">> }

Dir == [kind |-> "dir", target |-> <<>>]

File == [kind |-> "file", target |-> <<>>]

Link(target) == [kind |-> "link", target |-> target]

\* The directories and files of every filesystem of the model.
BaseFs ==
    (<<>> :> Dir) @@ (<<"etc">> :> Dir) @@ (<<"etc", "x">> :> File) @@
    (<<"r">> :> Dir) @@ (<<"r", "a">> :> Dir) @@ (<<"r", "a", "x">> :> File)

\* The filesystems: the base, without /r/l or with /r/l a symlink.
Filesystems == {BaseFs} \cup {BaseFs @@ (<<"r", "l">> :> Link(t)) : t \in LinkTargets}

\* str::trim_start_matches("/").
RECURSIVE TrimStartMatches(_)
TrimStartMatches(str) == IF str # <<>> /\ Head(str) = "/" THEN TrimStartMatches(Tail(str)) ELSE str

\* PathBuf::join(path): an absolute path replaces self; otherwise path is
\* appended, after a separator when self does not end with one.
PathJoin(self, path) ==
    IF path # <<>> /\ Head(path) = "/" THEN path
    ELSE IF self # <<>> /\ self[Len(self)] # "/" THEN self \o <<"/">> \o path
    ELSE self \o path

RECURSIVE NamesOf(_, _)
\* The names of a path string: what lies between separators, without the
\* empty names and, but for one that leads a relative path, without ".".
NamesOf(str, leading) ==
    IF str = <<>> THEN <<>>
    ELSE IF Head(str) = "/" THEN NamesOf(Tail(str), FALSE)
    ELSE IF Head(str) = "." /\ ~leading THEN NamesOf(Tail(str), FALSE)
    ELSE <<Head(str)>> \o NamesOf(Tail(str), FALSE)

\* Path::iter(): the root directory of an absolute path, then its names.
Components(str) ==
    IF str # <<>> /\ Head(str) = "/" THEN <<"/">> \o NamesOf(str, FALSE) ELSE NamesOf(str, TRUE)

\* PathBuf::push(component): the root directory replaces the buffer, a name
\* is appended to it.
PathPush(buf, component) == IF component = "/" THEN <<"/">> ELSE Append(buf, component)

\* The parent of a canonical path; the root directory is its own parent.
Parent(canon) == IF canon = <<>> THEN <<>> ELSE SubSeq(canon, 1, Len(canon) - 1)

RECURSIVE Walk(_, _, _, _)
\* The kernel's path walk from directory cur over names: "." stays, ".."
\* goes to the parent, a symlink is followed (from the root directory when
\* its target is absolute), at most `follow` times.  The canonical path of
\* the node reached, or an error (ENOENT, ENOTDIR, ELOOP).
Walk(f, cur, names, follow) ==
    IF names = <<>> THEN Ok(cur)
    ELSE IF f[cur].kind # "dir" THEN Err
    ELSE IF Head(names) = "." THEN Walk(f, cur, Tail(names), follow)
    ELSE IF Head(names) = ".." THEN Walk(f, Parent(cur), Tail(names), follow)
    ELSE LET child == Append(cur, Head(names)) IN
         IF child \notin DOMAIN f THEN Err
         ELSE IF f[child].kind = "link"
         THEN IF follow = 0 THEN Err
              ELSE LET target == Components(f[child].target) IN
                   IF target # <<>> /\ Head(target) = "/"
                   THEN Walk(f, <<>>, Tail(target) \o Tail(names), follow - 1)
                   ELSE Walk(f, cur, target \o Tail(names), follow - 1)
         ELSE Walk(f, child, Tail(names), follow)

\* stat(2) / realpath(3) of an absolute path given by its components.
Realpath(f, path) == Walk(f, <<>>, Tail(path), MaxSymlinks)

\* Path::exists(): whether the metadata can be read; any error, an I/O
\* error too, is false.
PathExists(f, path, fault) == fault # "stat" /\ Realpath(f, path).ok

\* Path::canonicalize(): the canonical path, as a PathBuf, or an error.
Canonicalize(f, path, fault) ==
    IF fault = "canonicalize" \/ ~Realpath(f, path).ok THEN Err
    ELSE Ok(<<"/">> \o Realpath(f, path).val)

\* The I/O errors that may hit one iteration: none, one that makes stat(2)
\* fail, one that makes realpath(3) fail.
IoFaults == {"none", "stat", "canonicalize"}

ResolveIdle ==
    /\ fs = BaseFs
    /\ r_pc = "idle"
    /\ r_dest = <<>>
    /\ r_rootfs = <<>>
    /\ r_todo = <<>>
    /\ destination_resolved = <<>>
    /\ r_outcome = "idle"
    /\ r_faults = <<>>

\* The call, lines 10-12: resolve_in_rootfs(destination_rel, rootfs); the
\* destination is joined under rootfs and the result starts empty.
ResolveCall(destination_rel, rootfs) ==
    /\ r_pc = "idle"
    /\ r_pc' = "loop"
    /\ r_dest' = destination_rel
    /\ r_rootfs' = rootfs
    /\ r_todo' = Components(PathJoin(rootfs, TrimStartMatches(destination_rel)))
    /\ destination_resolved' = <<>>
    /\ r_outcome' = "running"
    /\ UNCHANGED <<fs, r_faults>>
    /\ UNCHANGED resolveOthers

\* The I/O error that makes a difference to an iteration: one that hits a
\* path that exists (for a path that does not, stat(2) fails anyhow).
FaultOn(f, path, fault) == IF Realpath(f, path).ok THEN fault ELSE "none"

\* A variant of ResolveIterate that canonicalizes every prefix, whether it
\* exists or not.
ResolveIterate_AlwaysCanonicalize ==
    /\ r_pc = "loop"
    /\ r_todo # <<>>
    /\ \E fault \in IoFaults :
        LET pushed == PathPush(destination_resolved, Head(r_todo)) IN
        /\ r_faults' = Append(r_faults, FaultOn(fs, pushed, fault))
        /\ IF Canonicalize(fs, pushed, fault).ok
           THEN /\ destination_resolved' = Canonicalize(fs, pushed, fault).val
                /\ r_todo' = Tail(r_todo)
                /\ UNCHANGED <<r_pc, r_outcome>>
           ELSE /\ r_pc' = "panicked"
                /\ r_outcome' = "Could not resolve mount path"
                /\ destination_resolved' = pushed
                /\ UNCHANGED r_todo
    /\ UNCHANGED <<fs, r_dest, r_rootfs>>
    /\ UNCHANGED resolveOthers

\* Lines 15-22, one iteration: push the next component and, when the path
\* exists, replace it by its canonical form; panic when that fails.
ResolveIterate ==
    /\ r_pc = "loop"
    /\ r_todo # <<>>
    /\ \E fault \in IoFaults :
        LET pushed == PathPush(destination_resolved, Head(r_todo)) IN
        /\ r_faults' = Append(r_faults, FaultOn(fs, pushed, fault))
        /\ IF PathExists(fs, pushed, fault)
           THEN IF Canonicalize(fs, pushed, fault).ok
                THEN /\ destination_resolved' = Canonicalize(fs, pushed, fault).val
                     /\ r_todo' = Tail(r_todo)
                     /\ UNCHANGED <<r_pc, r_outcome>>
                ELSE /\ r_pc' = "panicked"
                     /\ r_outcome' = "Could not resolve mount path"
                     /\ destination_resolved' = pushed
                     /\ UNCHANGED r_todo
           ELSE /\ destination_resolved' = pushed
                /\ r_todo' = Tail(r_todo)
                /\ UNCHANGED <<r_pc, r_outcome>>
    /\ UNCHANGED <<fs, r_dest, r_rootfs>>
    /\ UNCHANGED resolveOthers

\* Line 23: return destination_resolved.
ResolveReturn ==
    /\ r_pc = "loop"
    /\ r_todo = <<>>
    /\ r_pc' = "returned"
    /\ r_outcome' = "Ok"
    /\ UNCHANGED <<fs, r_dest, r_rootfs, r_todo, destination_resolved, r_faults>>
    /\ UNCHANGED resolveOthers

ResolveInit ==
    /\ fs \in Filesystems
    /\ r_pc = "idle"
    /\ r_dest = <<>>
    /\ r_rootfs = <<>>
    /\ r_todo = <<>>
    /\ destination_resolved = <<>>
    /\ r_outcome = "idle"
    /\ r_faults = <<>>

ResolveNext ==
    \/ r_pc = "idle" /\ \E destination_rel \in DestStrings, rootfs \in RootfsDirs : ResolveCall(destination_rel, rootfs)
    \/ ResolveIterate
    \/ ResolveReturn

----------------------------------------------------------------------------
(* logging.rs: RunhLogger and init                                         *)

\* The threads that log, and the records they pass to the logger in all.
MaxThreads == 2

MaxRecords == 2

Threads == 1..MaxThreads

\* log::Level, from the most severe, and log::LevelFilter with Off before.
LevelRank == [ERROR |-> 1, WARN |-> 2, INFO |-> 3, DEBUG |-> 4, TRACE |-> 5]

\* The levels the callers log at.
CallLevels == {"ERROR", "DEBUG"}

\* Lines 140-148: the filter the log macros apply before they call log.
MaxLevelOf(log_level) ==
    IF ~log_level.some THEN LevelRank["INFO"]
    ELSE CASE log_level.val = "error" -> LevelRank["ERROR"]
           [] log_level.val = "debug" -> LevelRank["DEBUG"]
           [] log_level.val = "off" -> 0
           [] log_level.val = "trace" -> LevelRank["TRACE"]
           [] log_level.val = "warn" -> LevelRank["WARN"]
           [] log_level.val = "info" -> LevelRank["INFO"]
           [] OTHER -> LevelRank["INFO"]

\* str::to_ascii_lowercase of a level's name.
ToAsciiLowercase(level) ==
    CASE level = "ERROR" -> "error"
      [] level = "WARN" -> "warn"
      [] level = "INFO" -> "info"
      [] level = "DEBUG" -> "debug"
      [] level = "TRACE" -> "trace"

\* Lines 40-50: the line of a record, without its end of line.
Message(format, record) ==
    IF format = "TEXT"
    THEN <<"[", record.level, "] ", record.args>>
    ELSE <<"{level:", ToAsciiLowercase(record.level), ",msg:", record.args, ",time:", "now", "}">>

\* Lines 75-93: the level as print_level prints it, in its own colour.
PrintLevel(level) ==
    CASE level = "INFO" -> <<"green", "[", level, "]">>
      [] level = "DEBUG" -> <<"blue", "[", level, "]">>
      [] level = "ERROR" -> <<"red", "[", level, "]">>
      [] level = "WARN" -> <<"yellow", "[", level, "]">>
      [] OTHER -> <<"black", level>>

\* writeln!(file, "{}", message) makes two writes: the message, then the end
\* of line.  What each write appends to the file.
Chunk(record, part, format) ==
    [rec |-> record.id, thread |-> record.thread, part |-> part,
     text |-> IF part = "message" THEN Message(format, record) ELSE <<"\n">>]

\* A write(2) on a file or pipe succeeds or fails.
WriteResults == {"OK", "Err"}

\* The inputs of init.
LogPaths == {None, Some("log")}

PipeEnvs == {None, Some(<<"3">>), Some(<<"x">>)}

LogFormats == {None, Some("json"), Some("text")}

LogLevels == {None, Some("debug")}

PanicBackupWrite == "Could not write to backup log file!"

PanicPoisoned == "called Result::unwrap() on an Err value: PoisonError"

NoRecord == [id |-> 0, thread |-> 0, level |-> "", args |-> ""]

\* Before init: no logger is installed.
LogIdle ==
    /\ lg_pc = "uninit"
    /\ lg_outcome = ""
    /\ log_file = None
    /\ log_file_internal = None
    /\ log_format = ""
    /\ max_level = 0
    /\ file_lock = 0
    /\ file_lock_backup = 0
    /\ log_file_poisoned = FALSE
    /\ log_file_internal_poisoned = FALSE
    /\ t_pc = [t \in Threads |-> "idle"]
    /\ t_rec = [t \in Threads |-> NoRecord]
    /\ t_panic = [t \in Threads |-> ""]
    /\ primary = <<>>
    /\ internal = <<>>
    /\ stdout = <<>>
    /\ lg_calls = 0
    /\ lg_returned = {}

\* Lines 103-137: the fields of the logger init builds, or the panic.
InitLogger(log_path, pipe_env, fmt, internal_log, create_res, open_res) ==
    LET has_log_pipe == ~log_path.some /\ pipe_env.some
        file == IF log_path.some THEN Some("log_path")
                ELSE IF pipe_env.some THEN Some("RUNH_LOG_PIPE")
                ELSE None
        format == IF fmt.some /\ fmt.val = "json" THEN "JSON" ELSE "TEXT"
        backup == IF has_log_pipe \/ ~internal_log THEN None ELSE Some("log-now.json")
        panic == IF log_path.some /\ create_res # "OK" THEN "Could not create new log file!"
                 ELSE IF has_log_pipe /\ ~ParseI32(pipe_env.val).ok THEN "RUNH_LOG_PIPE was not an integer!"
                 ELSE IF backup.some /\ open_res # "OK" THEN "Could not open tmp log file!"
                 ELSE ""
    IN [panic |-> panic, log_file |-> file, log_file_internal |-> backup, log_format |-> format]

\* Lines 96-152: init, called by thread 1.  It builds and installs the
\* logger, sets the maximal level and logs "Runh logger initialized!" at
\* DEBUG, which gets to the logger when the maximal level lets it.
LogInit(log_path, pipe_env, fmt, log_level, internal_log, create_res, open_res) ==
    LET logger == InitLogger(log_path, pipe_env, fmt, internal_log, create_res, open_res)
        debug == MaxRecords > 0 /\ LevelRank["DEBUG"] <= MaxLevelOf(log_level)
    IN
    /\ lg_pc = "uninit"
    /\ IF logger.panic # ""
       THEN /\ lg_pc' = "panicked"
            /\ lg_outcome' = logger.panic
            /\ UNCHANGED <<log_file, log_file_internal, log_format, max_level, t_pc, t_rec, lg_calls>>
       ELSE /\ lg_pc' = "ready"
            /\ lg_outcome' = "Ok"
            /\ log_file' = logger.log_file
            /\ log_file_internal' = logger.log_file_internal
            /\ log_format' = logger.log_format
            /\ max_level' = MaxLevelOf(log_level)
            /\ t_pc' = IF debug THEN [t_pc EXCEPT ![1] = "lock_file"] ELSE t_pc
            /\ t_rec' = IF debug
                        THEN [t_rec EXCEPT ![1] = [id |-> 1, thread |-> 1, level |-> "DEBUG", args |-> "Runh logger initialized!"]]
                        ELSE t_rec
            /\ lg_calls' = IF debug THEN 1 ELSE 0
    /\ UNCHANGED <<file_lock, file_lock_backup, log_file_poisoned, log_file_internal_poisoned, t_panic, primary, internal, stdout, lg_returned>>
    /\ UNCHANGED logOthers

\* A thread passes a record to RunhLogger::log (line 37); the log macros
\* have let it through.
LogCall(t, level) ==
    /\ lg_pc = "ready"
    /\ t_pc[t] = "idle"
    /\ lg_calls < MaxRecords
    /\ LevelRank[level] <= max_level
    /\ lg_calls' = lg_calls + 1
    /\ t_pc' = [t_pc EXCEPT ![t] = "lock_file"]
    /\ t_rec' = [t_rec EXCEPT ![t] = [id |-> lg_calls + 1, thread |-> t, level |-> level, args |-> ToString(lg_calls + 1)]]
    /\ UNCHANGED <<lg_pc, lg_outcome, log_file, log_file_internal, log_format, max_level, file_lock, file_lock_backup, log_file_poisoned, log_file_internal_poisoned, t_panic, primary, internal, stdout, lg_returned>>
    /\ UNCHANGED logOthers

\* Line 38: self.log_file.lock().unwrap().  The thread waits while another
\* holds the mutex; a poisoned mutex makes unwrap panic.  enabled() is true
\* for every record (lines 33-35, 39).
LogLockFile(t) ==
    /\ t_pc[t] = "lock_file"
    /\ file_lock = 0
    /\ IF log_file_poisoned
       THEN /\ t_pc' = [t_pc EXCEPT ![t] = "panicked"]
            /\ t_panic' = [t_panic EXCEPT ![t] = PanicPoisoned]
            /\ UNCHANGED file_lock
       ELSE /\ file_lock' = t
            /\ t_pc' = [t_pc EXCEPT ![t] = IF log_file.some THEN "write_primary" ELSE "print"]
            /\ UNCHANGED t_panic
    /\ UNCHANGED <<lg_pc, lg_outcome, log_file, log_file_internal, log_format, max_level, file_lock_backup, log_file_poisoned, log_file_internal_poisoned, t_rec, primary, internal, stdout, lg_calls, lg_returned>>
    /\ UNCHANGED logOthers

\* A variant of LogWritePrimaryMessage that expects the write to succeed.
LogWritePrimaryMessage_Expect(t) ==
    /\ t_pc[t] = "write_primary"
    /\ \E res \in WriteResults :
        IF res = "OK"
        THEN /\ primary' = Append(primary, Chunk(t_rec[t], "message", log_format))
             /\ t_pc' = [t_pc EXCEPT ![t] = "write_primary_nl"]
             /\ UNCHANGED <<file_lock, log_file_poisoned, t_panic>>
        ELSE /\ t_pc' = [t_pc EXCEPT ![t] = "panicked"]
             /\ t_panic' = [t_panic EXCEPT ![t] = "Could not write to log file!"]
             /\ file_lock' = 0
             /\ log_file_poisoned' = TRUE
             /\ UNCHANGED primary
    /\ UNCHANGED <<lg_pc, lg_outcome, log_file, log_file_internal, log_format, max_level, file_lock_backup, log_file_internal_poisoned, t_rec, internal, stdout, lg_calls, lg_returned>>
    /\ UNCHANGED logOthers

\* Line 52, first write of writeln!: the message.  An error sends the record
\* to stdout.
LogWritePrimaryMessage(t) ==
    /\ t_pc[t] = "write_primary"
    /\ \E res \in WriteResults :
        IF res = "OK"
        THEN /\ primary' = Append(primary, Chunk(t_rec[t], "message", log_format))
             /\ t_pc' = [t_pc EXCEPT ![t] = "write_primary_nl"]
        ELSE /\ t_pc' = [t_pc EXCEPT ![t] = "print_error"]
             /\ UNCHANGED primary
    /\ UNCHANGED <<lg_pc, lg_outcome, log_file, log_file_internal, log_format, max_level, file_lock, file_lock_backup, log_file_poisoned, log_file_internal_poisoned, t_rec, t_panic, internal, stdout, lg_calls, lg_returned>>
    /\ UNCHANGED logOthers

\* A variant of LogWritePrimaryNewline that drops file_lock once the line is
\* in the log file, before the internal log is written.
LogWritePrimaryNewline_DropGuard(t) ==
    /\ t_pc[t] = "write_primary_nl"
    /\ \E res \in WriteResults :
        IF res = "OK"
        THEN /\ primary' = Append(primary, Chunk(t_rec[t], "newline", log_format))
             /\ t_pc' = [t_pc EXCEPT ![t] = "lock_internal"]
             /\ file_lock' = 0
        ELSE /\ t_pc' = [t_pc EXCEPT ![t] = "print_error"]
             /\ UNCHANGED <<primary, file_lock>>
    /\ UNCHANGED <<lg_pc, lg_outcome, log_file, log_file_internal, log_format, max_level, file_lock_backup, log_file_poisoned, log_file_internal_poisoned, t_rec, t_panic, internal, stdout, lg_calls, lg_returned>>
    /\ UNCHANGED logOthers

\* Line 52, second write of writeln!: the end of line.
LogWritePrimaryNewline(t) ==
    /\ t_pc[t] = "write_primary_nl"
    /\ \E res \in WriteResults :
        IF res = "OK"
        THEN /\ primary' = Append(primary, Chunk(t_rec[t], "newline", log_format))
             /\ t_pc' = [t_pc EXCEPT ![t] = "lock_internal"]
        ELSE /\ t_pc' = [t_pc EXCEPT ![t] = "print_error"]
             /\ UNCHANGED primary
    /\ UNCHANGED <<lg_pc, lg_outcome, log_file, log_file_internal, log_format, max_level, file_lock, file_lock_backup, log_file_poisoned, log_file_internal_poisoned, t_rec, t_panic, internal, stdout, lg_calls, lg_returned>>
    /\ UNCHANGED logOthers

\* Lines 53-55: the write failed; the error, the level and the record go to
\* stdout.
LogPrintError(t) ==
    /\ t_pc[t] = "print_error"
    /\ stdout' = Append(stdout, [rec |-> t_rec[t].id, error |-> TRUE,
                                 text |-> PrintLevel(t_rec[t].level) \o <<" ", t_rec[t].args>>])
    /\ t_pc' = [t_pc EXCEPT ![t] = "lock_internal"]
    /\ UNCHANGED <<lg_pc, lg_outcome, log_file, log_file_internal, log_format, max_level, file_lock, file_lock_backup, log_file_poisoned, log_file_internal_poisoned, t_rec, t_panic, primary, internal, lg_calls, lg_returned>>
    /\ UNCHANGED logOthers

\* Lines 58-59: there is no log file; the level and the record go to stdout.
LogPrintStdout(t) ==
    /\ t_pc[t] = "print"
    /\ stdout' = Append(stdout, [rec |-> t_rec[t].id, error |-> FALSE,
                                 text |-> PrintLevel(t_rec[t].level) \o <<" ", t_rec[t].args>>])
    /\ t_pc' = [t_pc EXCEPT ![t] = "lock_internal"]
    /\ UNCHANGED <<lg_pc, lg_outcome, log_file, log_file_internal, log_format, max_level, file_lock, file_lock_backup, log_file_poisoned, log_file_internal_poisoned, t_rec, t_panic, primary, internal, lg_calls, lg_returned>>
    /\ UNCHANGED logOthers

\* Line 61: self.log_file_internal.lock().unwrap(), with file_lock held.  A
\* panic here unwinds through file_lock, which poisons and frees log_file.
LogLockInternal(t) ==
    /\ t_pc[t] = "lock_internal"
    /\ file_lock_backup = 0
    /\ IF log_file_internal_poisoned
       THEN /\ t_pc' = [t_pc EXCEPT ![t] = "panicked"]
            /\ t_panic' = [t_panic EXCEPT ![t] = PanicPoisoned]
            /\ file_lock' = 0
            /\ log_file_poisoned' = TRUE
            /\ UNCHANGED file_lock_backup
       ELSE /\ file_lock_backup' = t
            /\ t_pc' = [t_pc EXCEPT ![t] = IF log_file_internal.some THEN "write_internal" ELSE "return"]
            /\ UNCHANGED <<file_lock, log_file_poisoned, t_panic>>
    /\ UNCHANGED <<lg_pc, lg_outcome, log_file, log_file_internal, log_format, max_level, log_file_internal_poisoned, t_rec, primary, internal, stdout, lg_calls, lg_returned>>
    /\ UNCHANGED logOthers

\* Line 63, first write of writeln!: the message.  An error panics (expect)
\* with both guards held: both mutexes are poisoned and freed.
LogWriteInternalMessage(t) ==
    /\ t_pc[t] = "write_internal"
    /\ \E res \in WriteResults :
        IF res = "OK"
        THEN /\ internal' = Append(internal, Chunk(t_rec[t], "message", log_format))
             /\ t_pc' = [t_pc EXCEPT ![t] = "write_internal_nl"]
             /\ UNCHANGED <<file_lock, file_lock_backup, log_file_poisoned, log_file_internal_poisoned, t_panic>>
        ELSE /\ t_pc' = [t_pc EXCEPT ![t] = "panicked"]
             /\ t_panic' = [t_panic EXCEPT ![t] = PanicBackupWrite]
             /\ file_lock' = 0
             /\ file_lock_backup' = 0
             /\ log_file_poisoned' = TRUE
             /\ log_file_internal_poisoned' = TRUE
             /\ UNCHANGED internal
    /\ UNCHANGED <<lg_pc, lg_outcome, log_file, log_file_internal, log_format, max_level, t_rec, primary, stdout, lg_calls, lg_returned>>
    /\ UNCHANGED logOthers

\* Line 63, second write of writeln!: the end of line.
LogWriteInternalNewline(t) ==
    /\ t_pc[t] = "write_internal_nl"
    /\ \E res \in WriteResults :
        IF res = "OK"
        THEN /\ internal' = Append(internal, Chunk(t_rec[t], "newline", log_format))
             /\ t_pc' = [t_pc EXCEPT ![t] = "return"]
             /\ UNCHANGED <<file_lock, file_lock_backup, log_file_poisoned, log_file_internal_poisoned, t_panic>>
        ELSE /\ t_pc' = [t_pc EXCEPT ![t] = "panicked"]
             /\ t_panic' = [t_panic EXCEPT ![t] = PanicBackupWrite]
             /\ file_lock' = 0
             /\ file_lock_backup' = 0
             /\ log_file_poisoned' = TRUE
             /\ log_file_internal_poisoned' = TRUE
             /\ UNCHANGED internal
    /\ UNCHANGED <<lg_pc, lg_outcome, log_file, log_file_internal, log_format, max_level, t_rec, primary, stdout, lg_calls, lg_returned>>
    /\ UNCHANGED logOthers

\* Lines 64-66: log returns; file_lock_backup, then file_lock, are dropped.
LogReturn(t) ==
    /\ t_pc[t] = "return"
    /\ file_lock_backup' = 0
    /\ file_lock' = 0
    /\ t_pc' = [t_pc EXCEPT ![t] = "idle"]
    /\ lg_returned' = lg_returned \cup {t_rec[t].id}
    /\ UNCHANGED <<lg_pc, lg_outcome, log_file, log_file_internal, log_format, max_level, log_file_poisoned, log_file_internal_poisoned, t_rec, t_panic, primary, internal, stdout, lg_calls>>
    /\ UNCHANGED logOthers

\* A step of thread t inside log.
LogStep(t) ==
    \/ LogLockFile(t)
    \/ LogWritePrimaryMessage(t)
    \/ LogWritePrimaryNewline(t)
    \/ LogPrintError(t)
    \/ LogPrintStdout(t)
    \/ LogLockInternal(t)
    \/ LogWriteInternalMessage(t)
    \/ LogWriteInternalNewline(t)
    \/ LogReturn(t)

LogNext ==
    \/ lg_pc = "uninit" /\ \E log_path \in LogPaths, pipe_env \in PipeEnvs, fmt \in LogFormats, log_level \in LogLevels,
                              internal_log \in BOOLEAN, create_res \in WriteResults, open_res \in WriteResults :
                                  LogInit(log_path, pipe_env, fmt, log_level, internal_log, create_res, open_res)
    \/ \E t \in Threads, level \in CallLevels : LogCall(t, level)
    \/ \E t \in Threads : LogLockFile(t)
    \/ \E t \in Threads : LogWritePrimaryMessage(t)
    \/ \E t \in Threads : LogWritePrimaryNewline(t)
    \/ \E t \in Threads : LogPrintError(t)
    \/ \E t \in Threads : LogPrintStdout(t)
    \/ \E t \in Threads : LogLockInternal(t)
    \/ \E t \in Threads : LogWriteInternalMessage(t)
    \/ \E t \in Threads : LogWriteInternalNewline(t)
    \/ \E t \in Threads : LogReturn(t)

----------------------------------------------------------------------------
(* The specifications: one call of one function                            *)

InitKill == KillInit /\ RootfsIdle /\ ResolveIdle /\ LogIdle

SpecKill == InitKill /\ [][KillNext]_vars

InitRootfs == KillIdle /\ RootfsIdle /\ ResolveIdle /\ LogIdle

SpecRootfs == InitRootfs /\ [][RootfsNext]_vars

InitResolve == KillIdle /\ RootfsIdle /\ ResolveInit /\ LogIdle

SpecResolve == InitResolve /\ [][ResolveNext]_vars

\* The logger: init, then the threads log.
InitLog == KillIdle /\ RootfsIdle /\ ResolveIdle /\ LogIdle

SpecLog == InitLog /\ [][LogNext]_vars


----------------------------------------------------------------------------
(* Claims about resolve_in_rootfs                                          *)

\* Whether sequence p is a prefix of sequence q.
IsPrefix(p, q) == Len(p) <= Len(q) /\ SubSeq(q, 1, Len(p)) = p

\* The canonical form of the rootfs of the call, as a PathBuf.
CanonicalRoot == <<"/">> \o Realpath(fs, Components(r_rootfs)).val

\* The destination's names, as joined under the rootfs.
DestinationNames == NamesOf(TrimStartMatches(r_dest), FALSE)

\* Some component of the destination is a symlink whose target lies outside
\* the rootfs: a prefix of the joined path names a symlink, and what the
\* symlink resolves to is not under the canonical rootfs.
SymlinkLeavesRoot ==
    \E i \in 1..Len(DestinationNames) :
        LET dir == Realpath(fs, Components(r_rootfs) \o SubSeq(DestinationNames, 1, i - 1))
            here == Append(dir.val, DestinationNames[i])
        IN /\ dir.ok
           /\ here \in DOMAIN fs
           /\ fs[here].kind = "link"
           /\ Realpath(fs, <<"/">> \o here).ok
           /\ ~IsPrefix(CanonicalRoot, <<"/">> \o Realpath(fs, <<"/">> \o here).val)

\* C3: when some component of the destination is a symlink whose target lies
\* outside the rootfs, the path resolve_in_rootfs returns has the canonical
\* rootfs as a prefix.
C3_SymlinkNeverLeavesRoot ==
    (r_pc = "returned" /\ SymlinkLeavesRoot) => IsPrefix(CanonicalRoot, destination_resolved)

----------------------------------------------------------------------------
(* Claims about mount_rootfs and pivot_root                                *)

\* The call has ended, by a return or by a panic.
RootfsEnded == m_pc \in {"returned", "panicked"}

\* The system calls that failed.
FailedCalls == {i \in 1..Len(syscalls) : syscalls[i].res # "OK"}

PanicConfig == "Value of rootfsPropagation did not match any known option!"

\* The descriptor of a handle; -1 as long as it was not opened.
HandleFd(h) == IF h.some THEN h.val ELSE -1

\* The steps of pivot_root in the order of section 4.4: the call and its
\* arguments.
PivotOrder ==
    << [call |-> "open", args |-> <<"/", {"O_RDONLY", "O_DIRECTORY"}>>],
       [call |-> "open", args |-> <<m_rootfs, {"O_RDONLY", "O_DIRECTORY"}>>],
       [call |-> "fchdir", args |-> <<HandleFd(new_root)>>],
       [call |-> "pivot_root", args |-> <<".", ".">>],
       [call |-> "fchdir", args |-> <<HandleFd(old_root)>>],
       [call |-> "mount", args |-> <<None, ".", None, {"MS_SLAVE", "MS_REC"}, None>>],
       [call |-> "umount2", args |-> <<".", {"MNT_DETACH"}>>],
       [call |-> "chdir", args |-> <<"/">>] >>

\* C4: the system calls of pivot_root are, at every moment, the first steps
\* of the order above, each made once; a step that fails is the last one
\* made and the call has panicked; the call returns only after all eight
\* succeeded.
C4_PivotStepsInOrder ==
    m_fn = "pivot_root" =>
        /\ Len(syscalls) <= Len(PivotOrder)
        /\ \A i \in 1..Len(syscalls) :
              /\ syscalls[i].call = PivotOrder[i].call
              /\ syscalls[i].args = PivotOrder[i].args
        /\ \A i \in FailedCalls : i = Len(syscalls) /\ m_pc = "panicked"
        /\ m_pc = "panicked" => FailedCalls # {}
        /\ m_pc = "returned" => (Len(syscalls) = Len(PivotOrder) /\ FailedCalls = {})

C4_Witness ==
    /\ m_fn = "pivot_root"
    /\ m_pc = "panicked"
    /\ Len(syscalls) = 7
    /\ syscalls[7].call = "umount2"
    /\ syscalls[7].res = "EPERM"

\* The flag section 3 gives each value of rootfsPropagation.
ExpectedPropagation ==
    [rp \in {"shared", "slave", "private", "unbindable"} |->
        CASE rp = "shared" -> "MS_SHARED" [] rp = "slave" -> "MS_SLAVE"
          [] rp = "private" -> "MS_PRIVATE" [] rp = "unbindable" -> "MS_UNBINDABLE"]

PropagationFlags == {"MS_SHARED", "MS_SLAVE", "MS_PRIVATE", "MS_UNBINDABLE"}

\* C5: once mount_rootfs has read rootfsPropagation, the propagation flag it
\* holds is Slave for an absent field and the matching flag for "shared",
\* "slave", "private" and "unbindable", and that flag goes to the remount;
\* for any other string the call has panicked with the configuration error
\* and no system call was made.
C5_PropagationSelected ==
    (m_fn = "mount_rootfs" /\ m_spec.linux.some /\ m_pc # "mount_select") =>
        LET rp == m_spec.linux.val.rootfs_propagation IN
        IF rp.some /\ rp.val \notin DOMAIN ExpectedPropagation
        THEN m_pc = "panicked" /\ m_outcome = PanicConfig /\ syscalls = <<>>
        ELSE /\ mount_flags \cap PropagationFlags = {IF rp.some THEN ExpectedPropagation[rp.val] ELSE "MS_SLAVE"}
             /\ m_outcome # PanicConfig
             /\ Len(syscalls) >= 1 => syscalls[1].args[4] = mount_flags

C5_Witness ==
    /\ m_fn = "mount_rootfs"
    /\ m_spec.linux.some
    /\ m_spec.linux.val.rootfs_propagation = Some("rshared")
    /\ m_pc = "panicked"
    /\ m_outcome = PanicConfig
    /\ syscalls = <<>>

\* C6: the first system call of mount_rootfs is the recursive remount of "/"
\* with the selected propagation flag, the second the recursive bind mount
\* of rootfs_path onto itself; the second is made only after the first
\* succeeded; when either fails the call has panicked, and it returns only
\* after both succeeded.
C6_RemountThenBind ==
    m_fn = "mount_rootfs" =>
        /\ Len(syscalls) <= 2
        /\ Len(syscalls) >= 1 =>
              /\ syscalls[1].call = "mount"
              /\ syscalls[1].args = <<None, "/", None, mount_flags, None>>
              /\ "MS_REC" \in mount_flags
              /\ mount_flags \cap PropagationFlags # {}
        /\ Len(syscalls) = 2 =>
              /\ syscalls[1].res = "OK"
              /\ syscalls[2].call = "mount"
              /\ syscalls[2].args = <<Some(m_rootfs), m_rootfs, Some("bind"), {"MS_BIND", "MS_REC"}, None>>
        /\ FailedCalls # {} => m_pc = "panicked"
        /\ m_pc = "returned" => (Len(syscalls) = 2 /\ FailedCalls = {})

C6_Witness ==
    /\ m_fn = "mount_rootfs"
    /\ m_pc = "panicked"
    /\ Len(syscalls) = 1
    /\ syscalls[1].res = "EPERM"
    /\ m_outcome = "Could not mount rootfs with given MsFlags"

\* C7: when pivot_root has ended, by its return or by the panic of any
\* step, neither of its two directory handles is open.
C7_HandlesClosedOnExit ==
    (m_fn = "pivot_root" /\ RootfsEnded) =>
        /\ old_root.some => old_root.val \notin fds
        /\ new_root.some => new_root.val \notin fds
        /\ fds = StdFds

C7_Witness ==
    /\ m_fn = "pivot_root"
    /\ m_pc = "panicked"
    /\ Len(syscalls) = 2
    /\ syscalls[1].res = "OK"
    /\ syscalls[2].res = "ENOENT"
    /\ old_root.some
    /\ ~new_root.some
    /\ old_root.val \notin fds

----------------------------------------------------------------------------
(* Claims about kill_container                                             *)

\* The call has ended, by a return or by a panic.
KillEnded == k_pc \in {"returned", "panicked"}

\* The record the store holds for the container the call names.
KillTarget == IF k_id.some THEN store[k_id.val] ELSE None

Signalable(cs) == cs.status \in {"created", "running"}

PanicInvalidStatus == "Cannot send signals to non-running containers!"

PanicNotImplemented == "not implemented: Sending signals to all container processes"

PanicStateNotFound == "Could not query state for container"

PanicsSignalParse == {"Could not parse signal number", "Could not parse signal string"}

\* The call got as far as resolving the signal: the container exists, its
\* status is signalable, all is false and a process id is recorded.
ReachesResolution ==
    /\ KillTarget.some
    /\ Signalable(KillTarget.val)
    /\ ~k_all
    /\ KillTarget.val.pid.some
    /\ k_pc \in {"deliver", "returned", "panicked"}

\* C1: for a container whose status is neither "created" nor "running", and
\* whatever the signal specification, the call never gets to the delivery, it
\* ends with the invalid-container-status panic, and kill(2) is never invoked.
C1_NonRunningNeverSignalled ==
    (KillTarget.some /\ ~Signalable(KillTarget.val)) =>
        /\ k_pc \in {"get_state", "checks", "panicked"}
        /\ k_pc = "panicked" => k_outcome = PanicInvalidStatus
        /\ killCalls = <<>>

C1_Witness ==
    /\ KillTarget.some
    /\ KillTarget.val.status = "stopped"
    /\ KillTarget.val.pid.some
    /\ k_sig = Some(<<"9">>)
    /\ ~k_all
    /\ k_pc = "panicked"
    /\ k_outcome = PanicInvalidStatus

\* C2 as stated: for an existing container in any status, a call with
\* all = true ends with the not-implemented error and delivers no signal.
C2_AllNotImplementedAnyStatus ==
    (KillTarget.some /\ k_all) =>
        /\ KillEnded => k_outcome = PanicNotImplemented
        /\ killCalls = <<>>

\* C2 as amended: for an existing container, a call with all = true never
\* delivers a signal; it ends with the not-implemented error when the status
\* is "created" or "running", and with the invalid-container-status error
\* (the status is checked first) in every other status.
C2_AllNeverDelivers ==
    (KillTarget.some /\ k_all) =>
        /\ k_pc \in {"get_state", "checks", "panicked"}
        /\ k_pc = "panicked" =>
              k_outcome = IF Signalable(KillTarget.val) THEN PanicNotImplemented ELSE PanicInvalidStatus
        /\ killCalls = <<>>

C2_Witness ==
    /\ KillTarget.some
    /\ KillTarget.val.status = "running"
    /\ KillTarget.val.pid.some
    /\ KillTarget.val.pid.val \in procs
    /\ k_sig = Some(<<"9">>)
    /\ k_all
    /\ k_pc = "panicked"
    /\ k_outcome = PanicNotImplemented

\* C8: for every platform signal, number n and name SIGX, the specifications
\* decimal n, "X" and "SIGX" are all resolved, and all to the signal n.
C8_ThreeFormsSameSignal ==
    \A n \in Signals :
        (ReachesResolution /\ k_sig.some /\ k_sig.val \in {Decimal(n), ShortName(n), SignalTable[n]}) =>
            /\ k_signal = Some(n)
            /\ k_outcome \notin PanicsSignalParse
            /\ \A i \in 1..Len(killCalls) : killCalls[i].signal = n

C8_Witness ==
    /\ k_sig = Some(<<"K", "I", "L", "L">>)
    /\ k_signal = Some(9)
    /\ k_pc = "returned"
    /\ Len(killCalls) = 1
    /\ killCalls[1].signal = 9

\* The specifications that denote no signal: integers that are no signal's
\* number, and strings that are no signal's name, SIG prefix added or not.
BadSigSpecs ==
    { <<"0">>, <<"-", "9">>, <<"-", "0">>, <<"3", "2">>, <<"6", "4">>,
      <<"9", "9", "9", "9", "9", "9", "9", "9", "9", "9", "9">>,
      <<"-", "2", "1", "4", "7", "4", "8", "3", "6", "4", "8">>,
      <<"n", "o", "t", "a", "s", "i", "g", "n", "a", "l">>,
      <<"k", "i", "l", "l">>, <<"s", "i", "g", "k", "i", "l", "l">>,
      <<"S", "I", "G", "k", "i", "l", "l">>, <<"S", "i", "g", "K", "I", "L", "L">>,
      SIG, SIG \o SIG \o <<"K", "I", "L", "L">>, <<"S", "I", "G", "9">>,
      <<" ", "9">>, <<"9", " ">>, <<"+">>, <<>> }

\* C9: a specification that denotes no signal never leads to a delivery, and
\* a call that gets as far as resolving it ends with the signal-parse panic.
C9_BadSignalSpecFails ==
    (k_sig.some /\ k_sig.val \in BadSigSpecs) =>
        /\ killCalls = <<>>
        /\ k_pc \notin {"deliver", "returned"}
        /\ ReachesResolution => (k_pc = "panicked" /\ k_outcome \in PanicsSignalParse)

C9_Witness ==
    /\ ReachesResolution
    /\ KillTarget.val.pid.val \in procs
    /\ k_sig = Some(<<"k", "i", "l", "l">>)
    /\ k_pc = "panicked"
    /\ k_outcome = "Could not parse signal string"

\* C10: when the store has no record for the given id, the call ends with
\* the state-not-found panic, whatever sig and all, and kill(2) is never
\* invoked.
C10_MissingStateFails ==
    (k_id.some /\ ~store[k_id.val].some) =>
        /\ k_pc \in {"get_state", "panicked"}
        /\ k_pc = "panicked" => k_outcome = PanicStateNotFound
        /\ killCalls = <<>>

C10_Witness ==
    /\ k_id.some
    /\ ~store[k_id.val].some
    /\ k_sig = Some(<<"9">>)
    /\ k_all
    /\ k_pc = "panicked"
    /\ k_outcome = PanicStateNotFound

\* The process id in the state snapshot the call read.
SnapshotPid == container_state.val.pid

\* C11: for a container that is created or running and has a recorded
\* process id p, with all false and a specification of signal n, the call
\* invokes kill(2) once and only once, for signal n and process p, and it
\* returns Ok when that delivery succeeds.
C11_DeliversOnceToRecordedPid ==
    \A n \in Signals :
        (ReachesResolution /\ k_sig.some /\ k_sig.val \in {Decimal(n), ShortName(n), SignalTable[n]}) =>
            /\ Len(killCalls) <= 1
            /\ KillEnded <=> Len(killCalls) = 1
            /\ \A i \in 1..Len(killCalls) :
                /\ killCalls[i].pid = KillTarget.val.pid.val
                /\ killCalls[i].signal = n
                /\ killCalls[i].result = "OK" => (k_pc = "returned" /\ k_outcome = "Ok")

C11_Witness ==
    /\ ReachesResolution
    /\ KillTarget.val.status = "created"
    /\ k_sig = Some(<<"T", "E", "R", "M">>)
    /\ k_pc = "returned"
    /\ killCalls = <<[pid |-> 4242, signal |-> 15, result |-> "OK"]>>

\* C12: whenever the processes exit, the call makes at most one delivery
\* attempt and makes it for the process id of the snapshot it read; when the
\* target exited between the read and the attempt, the attempt finds no
\* process and the call ends with the delivery panic.  (No process id is
\* given to a new process while the call runs.)
C12_ExitBeforeDelivery ==
    /\ Len(killCalls) <= 1
    /\ \A i \in 1..Len(killCalls) :
        /\ container_state.some
        /\ SnapshotPid = Some(killCalls[i].pid)
    /\ (k_pid.some /\ k_pid.val \in exitedSinceRead /\ k_pc # "deliver") =>
        /\ killCalls = <<[pid |-> SnapshotPid.val, signal |-> k_signal.val, result |-> "ESRCH"]>>
        /\ k_pc = "panicked"
        /\ k_outcome = "Could not send signal"

C12_Witness ==
    /\ k_pid = Some(4242)
    /\ 4242 \in exitedSinceRead
    /\ 4243 \in procs
    /\ k_pc = "panicked"
    /\ k_outcome = "Could not send signal"
    /\ killCalls = <<[pid |-> 4242, signal |-> 9, result |-> "ESRCH"]>>

\* The panics the code words itself, as opposed to the panic of an unwrap.
ExplicitKillErrors ==
    {PanicStateNotFound, PanicInvalidStatus, PanicNotImplemented, "Could not send signal"} \cup PanicsSignalParse

\* C13: for a container that is created or running and has no recorded
\* process id, the call ends with an explicit error, whatever the signal
\* specification, and kill(2) is never invoked.
C13_MissingPidExplicitError ==
    (KillTarget.some /\ Signalable(KillTarget.val) /\ ~KillTarget.val.pid.some) =>
        /\ k_pc \notin {"deliver", "returned"}
        /\ k_pc = "panicked" => k_outcome \in ExplicitKillErrors
        /\ killCalls = <<>>

\* C15: no step of a call changes the store: the record of every container
\* is the same after the step as before it.
C15_StoreNeverMutated == [][store' = store]_vars

C15_Witness ==
    /\ k_pc = "returned"
    /\ KillTarget = Some([status |-> "running", pid |-> Some(4242)])
    /\ store["xyz"].some
    /\ killCalls = <<[pid |-> 4242, signal |-> 9, result |-> "OK"]>>

\* The first step that fails for the inputs of the call, in the order of the
\* code: state lookup, status check, all-flag check, the recorded pid, signal
\* resolution, delivery.
FirstFailure ==
    IF ~KillTarget.some THEN "lookup"
    ELSE IF ~Signalable(KillTarget.val) THEN "status"
    ELSE IF k_all THEN "all"
    ELSE IF ~KillTarget.val.pid.some THEN "pid"
    ELSE IF ~k_sig.some \/ k_sig.val \in BadSigSpecs THEN "signal"
    ELSE IF killCalls # <<>> /\ killCalls[1].result # "OK" THEN "delivery"
    ELSE "none"

\* What the caller sees for every step that fails, and for none.
OutcomesOf ==
    [ lookup   |-> {PanicStateNotFound, "called Option::unwrap() on a None value (id)"},
      status   |-> {PanicInvalidStatus},
      all      |-> {PanicNotImplemented},
      pid      |-> {"called Option::unwrap() on a None value (pid)"},
      signal   |-> PanicsSignalParse \cup {"called Option::unwrap() on a None value (sig)"},
      delivery |-> {"Could not send signal"},
      none     |-> {"Ok"} ]

\* C16: a call ends with the outcome of the first step that fails in the
\* order state lookup, status check, all-flag check, signal resolution,
\* delivery; kill(2) is invoked only when every earlier step passed; and no
\* outcome is shared by two steps, so the caller can tell them apart.
C16_FirstFailureDecides ==
    /\ KillEnded =>
        /\ k_outcome \in OutcomesOf[FirstFailure]
        /\ killCalls # <<>> <=> FirstFailure \in {"delivery", "none"}
        /\ k_pc = "returned" <=> FirstFailure = "none"
    /\ \A s, t \in DOMAIN OutcomesOf : s # t => OutcomesOf[s] \cap OutcomesOf[t] = {}

C16_Witness ==
    /\ KillTarget = Some([status |-> "stopped", pid |-> None])
    /\ k_all
    /\ k_sig = Some(<<"k", "i", "l", "l">>)
    /\ k_pc = "panicked"
    /\ k_outcome = PanicInvalidStatus

\* The components of the destination joined under the rootfs, as the loop
\* walks them.
JoinedComponents == Components(PathJoin(r_rootfs, TrimStartMatches(r_dest)))

\* The length of the longest prefix of the joined path that exists on disk.
ExistingLen ==
    CHOOSE k \in 1..Len(JoinedComponents) :
        /\ Realpath(fs, SubSeq(JoinedComponents, 1, k)).ok
        /\ \A j \in (k + 1)..Len(JoinedComponents) : ~Realpath(fs, SubSeq(JoinedComponents, 1, j)).ok

\* The components after that prefix: the ones that do not exist on disk.
TrailingComponents == SubSeq(JoinedComponents, ExistingLen + 1, Len(JoinedComponents))

\* No I/O error hit a prefix that exists during the call.
NoFault == \A i \in 1..Len(r_faults) : r_faults[i] = "none"

ResolveEnded == r_pc \in {"returned", "panicked"}

\* C14: when the last components of the destination do not exist on disk
\* (and no I/O error hits the call), the call returns, and it returns the
\* canonical form of the prefix that exists followed by exactly those
\* components, unchanged and in order.
C14_MissingTailAppended ==
    (ResolveEnded /\ NoFault /\ TrailingComponents # <<>>) =>
        /\ r_pc = "returned"
        /\ destination_resolved =
               <<"/">> \o Realpath(fs, SubSeq(JoinedComponents, 1, ExistingLen)).val \o TrailingComponents

C14_Witness ==
    /\ r_pc = "returned"
    /\ NoFault
    /\ <<"r", "l">> \in DOMAIN fs
    /\ fs[<<"r", "l">>].target = <<"a">>
    /\ r_rootfs = <<"/", "r">>
    /\ r_dest = <<"/", "l", "/", "l">>
    /\ TrailingComponents = <<"l">>
    /\ destination_resolved = <<"/", "r", "a", "l">>

\* C17: the call panics only when an existing prefix could not be
\* canonicalized; when one could not, the call panics there and returns no
\* path; and every prefix that exists on disk is in canonical form before
\* the next component is appended to it.
C17_FailsOnlyAndAlways ==
    /\ r_pc = "panicked" => (r_faults # <<>> /\ r_faults[Len(r_faults)] = "canonicalize")
    /\ \A i \in 1..Len(r_faults) :
        r_faults[i] = "canonicalize" => (i = Len(r_faults) /\ r_pc = "panicked" /\ r_outcome # "Ok")
    /\ (r_pc \in {"loop", "returned"} /\ destination_resolved # <<>> /\ Realpath(fs, destination_resolved).ok) =>
        destination_resolved = <<"/">> \o Realpath(fs, destination_resolved).val

\* The joined path meets no symlink: the filesystem has none, or the
\* destination does not name it.
NoSymlinkComponent ==
    \A i \in 1..Len(DestinationNames) :
        LET dir == Realpath(fs, Components(r_rootfs) \o SubSeq(DestinationNames, 1, i - 1))
            here == Append(dir.val, DestinationNames[i])
        IN (dir.ok /\ here \in DOMAIN fs) => fs[here].kind # "link"

\* C18: for a destination that has no symlink component, whatever its
\* leading separators and its ".." components, the path resolve_in_rootfs
\* returns has the canonical rootfs as a prefix.
C18_StaysInRoot ==
    (r_pc = "returned" /\ NoSymlinkComponent) => IsPrefix(CanonicalRoot, destination_resolved)

----------------------------------------------------------------------------
(* Claims about RunhLogger                                                 *)

\* The positions at which a thread waits for a mutex.
LockSteps == {"lock_file", "lock_internal"}

\* The positions between the lock of log_file and the return.
InsideLog == {"write_primary", "write_primary_nl", "print_error", "print", "lock_internal",
              "write_internal", "write_internal_nl", "return"}

\* The line of record r stands whole in the file: its message and, right
\* after it, its end of line.
WholeLine(file, r) ==
    \E i \in 1..(Len(file) - 1) :
        /\ file[i].rec = r /\ file[i].part = "message"
        /\ file[i + 1].rec = r /\ file[i + 1].part = "newline"

\* Where the line of record r starts in the file.
LineStart(file, r) == CHOOSE i \in 1..Len(file) : file[i].rec = r /\ file[i].part = "message"

\* Record r went to stdout, as the fallback of a failed write or for want of
\* a log file.
Printed(r, error) == \E i \in 1..Len(stdout) : stdout[i].rec = r /\ stdout[i].error = error

\* Nothing stands between the message of a record and its end of line, and
\* an end of line follows its own message; a message without its end of
\* line is the last write so far or, where writes may fail without a panic,
\* the trace of a failed write.
LinesWhole(file, mayFail) ==
    \A i \in 1..Len(file) :
        /\ file[i].part = "newline" =>
               (i > 1 /\ file[i - 1].rec = file[i].rec /\ file[i - 1].part = "message")
        /\ (file[i].part = "message" /\ i < Len(file)) =>
               \/ file[i + 1].rec = file[i].rec /\ file[i + 1].part = "newline"
               \/ mayFail /\ Printed(file[i].rec, TRUE)

\* C19: threads that log never deadlock: whenever a thread waits for a
\* mutex some thread inside log can step; log_file_internal is only locked
\* by the holder of log_file, which keeps log_file from its lock to its
\* return; every line is written whole in both files; and records that are
\* in both files are in the same order in both.
C19_NoDeadlockWholeOrdered ==
    /\ \A t \in Threads : t_pc[t] \in LockSteps => \E u \in Threads : ENABLED LogStep(u)
    /\ \A t \in Threads : file_lock_backup = t => file_lock = t
    /\ \A t \in Threads : t_pc[t] \in InsideLog => file_lock = t
    /\ LinesWhole(primary, TRUE)
    /\ LinesWhole(internal, FALSE)
    /\ \A r1, r2 \in 1..lg_calls :
        (WholeLine(primary, r1) /\ WholeLine(primary, r2) /\ WholeLine(internal, r1) /\ WholeLine(internal, r2)) =>
            (LineStart(primary, r1) < LineStart(primary, r2) <=> LineStart(internal, r1) < LineStart(internal, r2))

C19_Witness ==
    /\ t_pc[1] = "lock_file"
    /\ t_pc[2] = "write_internal_nl"
    /\ file_lock = 2
    /\ file_lock_backup = 2
    /\ WholeLine(primary, t_rec[2].id)
    /\ Len(internal) = 1

=============================================================================
